---- MODULE Spec2Model ----
(***************************************************************************)
(* Model of the birthday-reminder job of src/src/main.py: one run of       *)
(* main() (initialisation, optional test message, fetch + date matching,   *)
(* send, error notification) and the date matcher of                       *)
(* SupabaseManager.get_contact_data.                                       *)
(*                                                                         *)
(* Dates are records [year, month, day]; datetime values are used by the   *)
(* code only through their calendar date (line 114 compares .date()).      *)
(* Strings are TLA+ strings; a character is a string of length one.        *)
(***************************************************************************)
EXTENDS Integers, Sequences, FiniteSets, TLC

VARIABLES env, today, pc, queries, rows, contacts, sent, exc, exit

vars == <<env, today, pc, queries, rows, contacts, sent, exc, exit>>

(***************************************************************************)
(* Bounds of the model.                                                    *)
(***************************************************************************)
\* longest response of the remote table in the run specification
MaxBatch == 2
\* the matcher specification draws today from every day of
\* FirstTodayYear .. FirstTodayYear + NumTodayYears - 1
FirstTodayYear == 2023
NumTodayYears == 2
\* ... and stored dates from every valid date of
\* FirstStoredYear .. FirstStoredYear + NumStoredYears - 1
FirstStoredYear == 2024
NumStoredYears == 1

(***************************************************************************)
(* Program constants.                                                      *)
(***************************************************************************)
\* timedelta(days=20), lines 111 and 187
leadDays == 20

\* record.get('event_date') of a row without the field (Python None)
NoneValue == "<None>"

(***************************************************************************)
(* Calendar arithmetic of datetime (proleptic Gregorian calendar).         *)
(***************************************************************************)
is_leap == [y \in 0..9999 |-> (y % 4 = 0) /\ ((y % 100 # 0) \/ (y % 400 = 0))]

days_in_month(y, m) ==
    IF m = 2 THEN (IF is_leap[y] THEN 29 ELSE 28)
    ELSE IF m \in {4, 6, 9, 11} THEN 30 ELSE 31

\* the date constructor's range check: a ValueError when this is false
valid_date(y, m, d) ==
    /\ y \in 1..9999
    /\ m \in 1..12
    /\ d >= 1
    /\ d <= days_in_month(y, m)

mkdate(y, m, d) == [year |-> y, month |-> m, day |-> d]

days_before_year(y) ==
    (y - 1) * 365 + ((y - 1) \div 4) - ((y - 1) \div 100) + ((y - 1) \div 400)

RECURSIVE days_before_month(_, _)
days_before_month(y, m) ==
    IF m = 1 THEN 0 ELSE days_before_month(y, m - 1) + days_in_month(y, m - 1)

\* date.toordinal(): 0001-01-01 is day 1
ymd2ord(dt) ==
    days_before_year(dt.year) + days_before_month(dt.year, dt.month) + dt.day

RECURSIVE month_of_yday(_, _, _)
\* month and day of the n-th day (from 0) of year y, searching from month m
month_of_yday(y, m, n) ==
    IF n < days_in_month(y, m) THEN mkdate(y, m, n + 1)
    ELSE month_of_yday(y, m + 1, n - days_in_month(y, m))

\* date.fromordinal(): the 400/100/4/1-year cycle decomposition
ord2ymd(ord) ==
    LET n0   == ord - 1
        n400 == n0 \div 146097
        r400 == n0 % 146097
        n100 == r400 \div 36524
        r100 == r400 % 36524
        n4   == r100 \div 1461
        r4   == r100 % 1461
        n1   == r4 \div 365
        r1   == r4 % 365
        y    == n400 * 400 + n100 * 100 + n4 * 4 + n1 + 1
    IN  IF n1 = 4 \/ n100 = 4 THEN mkdate(y - 1, 12, 31)
        ELSE month_of_yday(y, 1, r1)

\* dt - timedelta(days=n)
minus_days(dt, n) == ord2ymd(ymd2ord(dt) - n)

(***************************************************************************)
(* datetime.strptime(s, '%Y-%m-%d')                                        *)
(***************************************************************************)
Digits == <<"0", "1", "2", "3", "4", "5", "6", "7", "8", "9">>

DigitChars == {Digits[i] : i \in 1..10}

DigitValues == [c \in DigitChars |-> (CHOOSE i \in 1..10 : Digits[i] = c) - 1]

IsDigit(c) == c \in DigitChars

\* int() of one digit
DigitVal(c) == DigitValues[c]

\* the character of s at position i, "" past the end
CharAt(s, i) == IF i >= 1 /\ i <= Len(s) THEN SubSeq(s, i, i) ELSE ""

ParseFail == [ok |-> FALSE, val |-> 0, next |-> 0]

\* %Y : \d\d\d\d
match_Y(s, p) ==
    IF \A k \in 0..3 : IsDigit(CharAt(s, p + k))
    THEN [ok |-> TRUE,
          val |-> DigitVal(CharAt(s, p)) * 1000 + DigitVal(CharAt(s, p + 1)) * 100
                  + DigitVal(CharAt(s, p + 2)) * 10 + DigitVal(CharAt(s, p + 3)),
          next |-> p + 4]
    ELSE ParseFail

\* %m : 1[0-2]|0[1-9]|[1-9]   (alternatives tried in this order)
match_m(s, p) ==
    LET c1 == CharAt(s, p)
        c2 == CharAt(s, p + 1)
    IN  IF c1 = "1" /\ c2 \in {"0", "1", "2"}
        THEN [ok |-> TRUE, val |-> 10 + DigitVal(c2), next |-> p + 2]
        ELSE IF c1 = "0" /\ IsDigit(c2) /\ c2 # "0"
        THEN [ok |-> TRUE, val |-> DigitVal(c2), next |-> p + 2]
        ELSE IF IsDigit(c1) /\ c1 # "0"
        THEN [ok |-> TRUE, val |-> DigitVal(c1), next |-> p + 1]
        ELSE ParseFail

\* %d : 3[01]|[12]\d|0[1-9]|[1-9]| [1-9]
match_d(s, p) ==
    LET c1 == CharAt(s, p)
        c2 == CharAt(s, p + 1)
    IN  IF c1 = "3" /\ c2 \in {"0", "1"}
        THEN [ok |-> TRUE, val |-> 30 + DigitVal(c2), next |-> p + 2]
        ELSE IF c1 \in {"1", "2"} /\ IsDigit(c2)
        THEN [ok |-> TRUE, val |-> DigitVal(c1) * 10 + DigitVal(c2), next |-> p + 2]
        ELSE IF c1 = "0" /\ IsDigit(c2) /\ c2 # "0"
        THEN [ok |-> TRUE, val |-> DigitVal(c2), next |-> p + 2]
        ELSE IF IsDigit(c1) /\ c1 # "0"
        THEN [ok |-> TRUE, val |-> DigitVal(c1), next |-> p + 1]
        ELSE IF c1 = " " /\ IsDigit(c2) /\ c2 # "0"
        THEN [ok |-> TRUE, val |-> DigitVal(c2), next |-> p + 2]
        ELSE ParseFail

StrptimeError == [ok |-> FALSE, date |-> mkdate(0, 0, 0)]

\* variant: the format '%Y-%d-%m', day and month exchanged
strptime_day_first(s) ==
    LET Y == match_Y(s, 1)
    IN  IF ~Y.ok \/ CharAt(s, Y.next) # "-" THEN StrptimeError
        ELSE LET d == match_d(s, Y.next + 1)
             IN  IF ~d.ok \/ CharAt(s, d.next) # "-" THEN StrptimeError
                 ELSE LET m == match_m(s, d.next + 1)
                      IN  IF ~m.ok \/ m.next # Len(s) + 1 THEN StrptimeError
                          ELSE IF ~valid_date(Y.val, m.val, d.val) THEN StrptimeError
                          ELSE [ok |-> TRUE, date |-> mkdate(Y.val, m.val, d.val)]

\* The format regex is matched from the start of the string; a month
\* alternative that matched is never abandoned for a later one, because the
\* later one would have to be followed by "-" where a digit stands.  Text
\* left after the day ("unconverted data remains") and a day outside the
\* month are ValueErrors.
strptime(s) ==
    LET Y == match_Y(s, 1)
    IN  IF ~Y.ok \/ CharAt(s, Y.next) # "-" THEN StrptimeError
        ELSE LET m == match_m(s, Y.next + 1)
             IN  IF ~m.ok \/ CharAt(s, m.next) # "-" THEN StrptimeError
                 ELSE LET d == match_d(s, m.next + 1)
                      IN  IF ~d.ok \/ d.next # Len(s) + 1 THEN StrptimeError
                          ELSE IF ~valid_date(Y.val, m.val, d.val) THEN StrptimeError
                          ELSE [ok |-> TRUE, date |-> mkdate(Y.val, m.val, d.val)]

(***************************************************************************)
(* SupabaseManager.get_contact_data, lines 94-123: the filter loop.        *)
(***************************************************************************)
\* line 96: `not event_date_str` holds for None and for the empty string
is_falsy(event_date_str) == event_date_str = NoneValue \/ event_date_str = ""

\* variant: the event keeps the year it was stored with
event_date_in_stored_year(current_date, original_event_date) ==
    [ok |-> TRUE, date |-> original_event_date]

\* lines 104-108: datetime(current_date.year, month, day); ok is FALSE when
\* the constructor raises ValueError (day out of range for the month)
current_year_event_date(current_date, original_event_date) ==
    IF valid_date(current_date.year, original_event_date.month, original_event_date.day)
    THEN [ok |-> TRUE,
          date |-> mkdate(current_date.year, original_event_date.month,
                          original_event_date.day)]
    ELSE [ok |-> FALSE, date |-> mkdate(0, 0, 0)]

\* variant: the lead time off by one day
send_date_off_by_one(event) == minus_days(event, leadDays - 1)

\* line 111
send_date(event) == minus_days(event, leadDays)

\* lines 95-120 for one record: TRUE iff the record is appended to
\* target_records; every `continue` and the ValueError handler give FALSE
record_matches(current_date, record) ==
    IF is_falsy(record.event_date) THEN FALSE
    ELSE LET parsed == strptime(record.event_date)
         IN  IF ~parsed.ok THEN FALSE
             ELSE LET ev == current_year_event_date(current_date, parsed.date)
                  IN  IF ~ev.ok THEN FALSE
                      ELSE current_date = send_date(ev.date)

RECURSIVE target_records_until_invalid(_, _, _)
\* variant: the loop ends at the first record without a parseable date
target_records_until_invalid(current_date, data, i) ==
    IF i > Len(data) THEN <<>>
    ELSE IF is_falsy(data[i].event_date) \/ ~strptime(data[i].event_date).ok THEN <<>>
    ELSE (IF record_matches(current_date, data[i]) THEN <<data[i]>> ELSE <<>>)
         \o target_records_until_invalid(current_date, data, i + 1)

RECURSIVE target_records(_, _, _)
\* the for loop of line 94 from index i on
target_records(current_date, data, i) ==
    IF i > Len(data) THEN <<>>
    ELSE (IF record_matches(current_date, data[i]) THEN <<data[i]>> ELSE <<>>)
         \o target_records(current_date, data, i + 1)

\* lines 78-127; response is [raises, data]: the query of line 83 raising
\* leads to the handler of line 124
get_contact_data(current_date, response) ==
    IF response.raises THEN <<>>
    ELSE IF response.data = <<>> THEN <<>>
    ELSE target_records(current_date, response.data, 1)

(***************************************************************************)
(* Messages.  A message is its kind and the names it lists.                *)
(***************************************************************************)
contact_names(cs) == [i \in 1..Len(cs) |-> cs[i].name]

\* lines 129-159
format_contact_message(cs) ==
    IF cs = <<>> THEN [kind |-> "empty", names |-> <<>>]
    ELSE [kind |-> "reminder", names |-> contact_names(cs)]

\* line 199
status_message == [kind |-> "status", names |-> <<>>]

\* line 173
test_message == [kind |-> "test", names |-> <<>>]

\* line 214
error_message == [kind |-> "error", names |-> <<>>]

\* TelegramBot.send_message, lines 32-47: one POST; delivered is FALSE when
\* requests raises a RequestException, and that is the return value
send_message(log, text, delivered) ==
    Append(log, [text |-> text, returned |-> delivered])

(***************************************************************************)
(* Inputs.                                                                 *)
(***************************************************************************)
Pad2(n) == Digits[(n \div 10) + 1] \o Digits[(n % 10) + 1]

Pad4(n) == Pad2(n \div 100) \o Pad2(n % 100)

\* the text form in which the table returns a date column
Iso(y, m, d) == Pad4(y) \o "-" \o Pad2(m) \o "-" \o Pad2(d)

TodayYears == FirstTodayYear .. (FirstTodayYear + NumTodayYears - 1)

StoredYears == FirstStoredYear .. (FirstStoredYear + NumStoredYears - 1)

DatesOf(years) ==
    {mkdate(y, m, d) : y \in years, m \in 1..12, d \in 1..31} \cap
    {dt \in [year : years, month : 1..12, day : 1..31] :
        valid_date(dt.year, dt.month, dt.day)}

AllTodays == DatesOf(TodayYears)

StoredDates == DatesOf(StoredYears)

row(i, s) == [name |-> "n" \o ToString(i), event_date |-> s]

\* event_date values of the run specification: strings in the format of
\* line 101, and values that are missing or not in it
WellFormedSamples ==
    { "1989-09-05", "2001-09-05", "2024-09-05", "1989-9-5", "1989-09-06",
      "1990-01-10", "1992-02-29" }

MalformedSamples ==
    { "05/09/1989", "1989-13-05", "1989-02-30", "0000-09-05",
      "1989-09-05T00:00:00", "", NoneValue }

SampleEventDates == WellFormedSamples \cup MalformedSamples

SampleTodays ==
    { mkdate(2024, 8, 16), mkdate(2024, 8, 17), mkdate(2023, 12, 21),
      mkdate(2023, 2, 8), mkdate(2024, 2, 9) }

RowsOf(strs, maxlen) ==
    UNION { { [i \in 1..n |-> row(i, f[i])] : f \in [1..n -> strs] } : n \in 0..maxlen }

OkResponse(data) == [raises |-> FALSE, data |-> data]

RaisedResponse == [raises |-> TRUE, data |-> <<>>]

RunResponses ==
    { OkResponse(data) : data \in RowsOf(SampleEventDates, MaxBatch) } \cup {RaisedResponse}

MatcherResponses ==
    { OkResponse(<<row(1, Iso(dt.year, dt.month, dt.day))>>) : dt \in StoredDates }

(***************************************************************************)
(* main(), lines 161-224.                                                  *)
(***************************************************************************)
Envs == [db : BOOLEAN, tg : BOOLEAN, test : BOOLEAN]

InitCommon ==
    /\ queries = <<>>
    /\ rows = OkResponse(<<>>)
    /\ contacts = <<>>
    /\ sent = <<>>
    /\ exc = "none"
    /\ exit = "running"

Init ==
    /\ env \in Envs
    /\ today \in SampleTodays
    /\ pc = "init_db"
    /\ InitCommon

\* line 166, SupabaseManager.__init__ (lines 50-74): raises without the
\* credentials; otherwise one probe query whose failure is swallowed
InitDb ==
    /\ pc = "init_db"
    /\ IF ~env.db
       THEN /\ exc' = "Missing Supabase credentials"
            /\ pc' = "except"
            /\ UNCHANGED queries
       ELSE /\ queries' = Append(queries, "probe")
            /\ pc' = "init_bot"
            /\ UNCHANGED exc
    /\ UNCHANGED <<env, today, rows, contacts, sent, exit>>

\* line 167, TelegramBot.__init__ (lines 16-30)
InitBot ==
    /\ pc = "init_bot"
    /\ IF ~env.tg
       THEN /\ exc' = "Missing Telegram credentials"
            /\ pc' = "except"
       ELSE /\ pc' = "ready"
            /\ UNCHANGED exc
    /\ UNCHANGED <<env, today, queries, rows, contacts, sent, exit>>

\* lines 170-175: the manual test message, then return
SendTestMessage ==
    /\ pc = "ready"
    /\ env.test
    /\ \E delivered \in BOOLEAN : sent' = send_message(sent, test_message, delivered)
    /\ pc' = "done"
    /\ exit' = "ok"
    /\ UNCHANGED <<env, today, queries, rows, contacts, exc>>

\* variant: the exception of the query leaves get_contact_data
GetContactDataPropagating(responses) ==
    /\ pc = "ready"
    /\ ~env.test
    /\ \E response \in responses :
          /\ rows' = response
          /\ IF response.raises
             THEN /\ exc' = "query failed"
                  /\ pc' = "except"
                  /\ UNCHANGED contacts
             ELSE /\ contacts' = get_contact_data(today, response)
                  /\ pc' = "send"
                  /\ UNCHANGED exc
    /\ queries' = Append(queries, "select")
    /\ UNCHANGED <<env, today, sent, exit>>

\* line 178 with the response of the remote table drawn from responses
GetContactDataFrom(responses) ==
    /\ pc = "ready"
    /\ ~env.test
    /\ \E response \in responses :
          /\ rows' = response
          /\ contacts' = get_contact_data(today, response)
    /\ queries' = Append(queries, "select")
    /\ pc' = "send"
    /\ UNCHANGED <<env, today, sent, exc, exit>>

GetContactData == GetContactDataFrom(RunResponses)

\* variant: nothing is sent when there is nothing to remind of
ReturnWithoutStatus ==
    /\ pc = "send"
    /\ contacts = <<>>
    /\ pc' = "done"
    /\ exit' = "ok"
    /\ UNCHANGED <<env, today, queries, rows, contacts, sent, exc>>

\* lines 196-200: nothing to remind of, a status message, then return
SendStatus ==
    /\ pc = "send"
    /\ contacts = <<>>
    /\ \E delivered \in BOOLEAN : sent' = send_message(sent, status_message, delivered)
    /\ pc' = "done"
    /\ exit' = "ok"
    /\ UNCHANGED <<env, today, queries, rows, contacts, exc>>

\* variant: a failed send raises into the handler of line 213
SendRemindersRaising ==
    /\ pc = "send"
    /\ contacts # <<>>
    /\ \E delivered \in BOOLEAN :
          /\ sent' = send_message(sent, format_contact_message(contacts), delivered)
          /\ IF delivered
             THEN pc' = "done" /\ exit' = "ok" /\ UNCHANGED exc
             ELSE pc' = "except" /\ exc' = "RequestException" /\ UNCHANGED exit
    /\ UNCHANGED <<env, today, queries, rows, contacts>>

\* lines 203-211
SendReminders ==
    /\ pc = "send"
    /\ contacts # <<>>
    /\ \E delivered \in BOOLEAN :
          sent' = send_message(sent, format_contact_message(contacts), delivered)
    /\ pc' = "done"
    /\ exit' = "ok"
    /\ UNCHANGED <<env, today, queries, rows, contacts, exc>>

\* variant: the handler ends without re-raising
ErrorNotifySwallowing ==
    /\ pc = "except"
    /\ IF env.tg
       THEN \E delivered \in BOOLEAN : sent' = send_message(sent, error_message, delivered)
       ELSE UNCHANGED sent
    /\ pc' = "done"
    /\ exit' = "ok"
    /\ UNCHANGED <<env, today, queries, rows, contacts, exc>>

\* lines 213-224: a second TelegramBot(), whose ValueError the bare except
\* swallows, else one send of the error text; then the exception is re-raised
ErrorNotify ==
    /\ pc = "except"
    /\ IF env.tg
       THEN \E delivered \in BOOLEAN : sent' = send_message(sent, error_message, delivered)
       ELSE UNCHANGED sent
    /\ pc' = "done"
    /\ exit' = "raised"
    /\ UNCHANGED <<env, today, queries, rows, contacts, exc>>

Next ==
    \/ InitDb
    \/ InitBot
    \/ SendTestMessage
    \/ GetContactData
    \/ SendStatus
    \/ SendReminders
    \/ ErrorNotify

Spec == Init /\ [][Next]_vars

(***************************************************************************)
(* The matcher on its own: get_contact_data called on every day of         *)
(* TodayYears with a one-row response for every stored date.               *)
(***************************************************************************)
InitMatcher ==
    /\ env = [db |-> TRUE, tg |-> TRUE, test |-> FALSE]
    /\ today \in AllTodays
    /\ pc = "ready"
    /\ InitCommon

MatchStoredDate == GetContactDataFrom(MatcherResponses)

NextMatcher == MatchStoredDate

SpecMatcher == InitMatcher /\ [][NextMatcher]_vars

(***************************************************************************)
(* Vocabulary of the properties.                                           *)
(***************************************************************************)
\* the calendar day after dt
NextDay(dt) ==
    IF dt.day < days_in_month(dt.year, dt.month) THEN mkdate(dt.year, dt.month, dt.day + 1)
    ELSE IF dt.month < 12 THEN mkdate(dt.year, dt.month + 1, 1)
    ELSE mkdate(dt.year + 1, 1, 1)

RECURSIVE PlusDays(_, _)
\* the calendar day n days after dt, counted day by day
PlusDays(dt, n) == IF n = 0 THEN dt ELSE PlusDays(NextDay(dt), n - 1)

\* month and day of a string YYYY-MM-DD, read at their fixed positions
StoredMonth(s) == DigitVal(CharAt(s, 6)) * 10 + DigitVal(CharAt(s, 7))

StoredDay(s) == DigitVal(CharAt(s, 9)) * 10 + DigitVal(CharAt(s, 10))

StoredYear(s) ==
    DigitVal(CharAt(s, 1)) * 1000 + DigitVal(CharAt(s, 2)) * 100
    + DigitVal(CharAt(s, 3)) * 10 + DigitVal(CharAt(s, 4))

\* the record is in the result of get_contact_data
Included(r) == \E j \in 1..Len(contacts) : contacts[j] = r

\* get_contact_data has returned from a query that did not raise
Fetched ==
    /\ pc \in {"send", "done"}
    /\ \E k \in 1..Len(queries) : queries[k] = "select"
    /\ ~rows.raises

\* the day leadDays days after each possible today
LeadDaysAfter == [dt \in AllTodays \cup SampleTodays |-> PlusDays(dt, leadDays)]

\* today is leadDays days before the date with today's year and the
\* month and day of s (no day is, when that month and day is no date of
\* today's year)
LeadDaysBeforeThisYears(s) ==
    LeadDaysAfter[today] = mkdate(today.year, StoredMonth(s), StoredDay(s))

\* C1: after get_contact_data, a record with a parseable event_date is in
\* the result iff today is the date (today's year, stored month, stored day)
\* minus 20 days, and the result holds nothing but records of the response.
C1_MatchIffLeadDaysBefore ==
    Fetched =>
        /\ \A i \in 1..Len(rows.data) :
              Included(rows.data[i]) <=> LeadDaysBeforeThisYears(rows.data[i].event_date)
        /\ \A j \in 1..Len(contacts) : \E i \in 1..Len(rows.data) : contacts[j] = rows.data[i]

C1_Witness ==
    /\ Fetched
    /\ today = mkdate(2023, 8, 16)
    /\ rows.data = <<row(1, "2024-09-05")>>
    /\ contacts = rows.data

\* C2: a record whose stored month/day is January 1 to January 20 is in the
\* result on the day of the current year that is 20 days before next
\* year's anniversary.
C2_CarriedIntoNextYear ==
    Fetched =>
        \A i \in 1..Len(rows.data) :
            LET s == rows.data[i].event_date
            IN  ( /\ StoredMonth(s) = 1
                  /\ StoredDay(s) <= leadDays
                  /\ LeadDaysAfter[today] = mkdate(today.year + 1, 1, StoredDay(s)) )
                => Included(rows.data[i])

\* C3 as stated: when the stored month/day placed in today's year is exactly
\* 20 days after today, the record does not match.
C3_BoundaryIsNoMatch ==
    Fetched =>
        \A i \in 1..Len(rows.data) :
            LeadDaysBeforeThisYears(rows.data[i].event_date) => ~Included(rows.data[i])

\* C3 amended: when the stored month/day placed in today's year is exactly
\* 20 days after today, the record matches.
C3_BoundaryIsMatch ==
    Fetched =>
        \A i \in 1..Len(rows.data) :
            LeadDaysBeforeThisYears(rows.data[i].event_date) => Included(rows.data[i])

C3_Witness ==
    /\ Fetched
    /\ today = mkdate(2023, 1, 1)
    /\ rows.data = <<row(1, "2024-01-21")>>
    /\ Included(rows.data[1])

\* C4: a record stored as February 29 is in the result on February 8 of a
\* year that is not a leap year (the event falling back to February 28).
C4_Feb29FallsBackToFeb28 ==
    Fetched =>
        \A i \in 1..Len(rows.data) :
            LET s == rows.data[i].event_date
            IN  ( /\ StoredMonth(s) = 2
                  /\ StoredDay(s) = 29
                  /\ ~is_leap[today.year]
                  /\ today = mkdate(today.year, 2, 8) )
                => Included(rows.data[i])

\* C5: for a fixed today, a stored date with the same month and day and
\* another year gives the same match result as the record of the response.
C5_YearInvariance ==
    Fetched =>
        \A i \in 1..Len(rows.data) :
            LET s == rows.data[i].event_date
            IN  \A y \in TodayYears :
                    ( y # StoredYear(s) /\ valid_date(y, StoredMonth(s), StoredDay(s)) )
                    => ( record_matches(today, row(i, Iso(y, StoredMonth(s), StoredDay(s))))
                         <=> Included(rows.data[i]) )

C5_Witness ==
    /\ Fetched
    /\ today = mkdate(2024, 8, 16)
    /\ rows.data = <<row(1, "2024-09-05")>>
    /\ Included(rows.data[1])
    /\ record_matches(today, row(1, "2023-09-05"))

\* C6: a record whose event_date is missing or malformed is not in the
\* result, nothing is raised, and the result is exactly the records of the
\* response that match, in order, whatever stands before or after them.
C6_MalformedSkippedBatchContinues ==
    Fetched =>
        /\ \A i \in 1..Len(rows.data) :
              rows.data[i].event_date \in MalformedSamples => ~Included(rows.data[i])
        /\ contacts = SelectSeq(rows.data, LAMBDA r : record_matches(today, r))
        /\ exc = "none"
        /\ exit # "raised"

C6_Witness ==
    /\ Fetched
    /\ today = mkdate(2024, 8, 16)
    /\ rows.data = <<row(1, "05/09/1989"), row(2, "1989-09-05")>>
    /\ contacts = <<row(2, "1989-09-05")>>

\* C7: a run with all credentials, no test message and no matching record
\* ends normally with exactly one message sent, the status message.
C7_StatusSentWhenNoMatches ==
    ( pc = "done" /\ env.db /\ env.tg /\ ~env.test /\ contacts = <<>> )
    => ( /\ exit = "ok"
         /\ Len(sent) = 1
         /\ sent[1].text = status_message )

C7_Witness ==
    /\ pc = "done"
    /\ env = [db |-> TRUE, tg |-> TRUE, test |-> FALSE]
    /\ rows = OkResponse(<<row(1, "1989-09-06")>>)
    /\ contacts = <<>>
    /\ sent = <<[text |-> status_message, returned |-> TRUE]>>

\* C8: with a credential missing, no record fetch and no message other than
\* one error notification ever happens, and the run ends by raising the
\* exception of the failed initialisation, whether or not the notification
\* could be sent.
C8_MissingCredentialPropagates ==
    ( ~env.db \/ ~env.tg ) =>
        /\ \A k \in 1..Len(queries) : queries[k] # "select"
        /\ Len(sent) <= 1
        /\ \A k \in 1..Len(sent) : sent[k].text = error_message
        /\ pc = "done" =>
              /\ exit = "raised"
              /\ exc = (IF ~env.db THEN "Missing Supabase credentials"
                        ELSE "Missing Telegram credentials")
              /\ (Len(sent) = 1 <=> env.tg)

C8_Witness ==
    /\ pc = "done"
    /\ ~env.db
    /\ env.tg
    /\ sent = <<[text |-> error_message, returned |-> FALSE]>>
    /\ exit = "raised"

\* C9: when a send of the run (test message, status message or reminders)
\* fails, send_message has returned false, no further send is made, the
\* error path is not entered and the run ends normally.
C9_FailedSendIsNotFatal ==
    ( /\ pc = "done"
      /\ \E k \in 1..Len(sent) : ~sent[k].returned /\ sent[k].text # error_message )
    => ( /\ exit = "ok"
         /\ exc = "none"
         /\ Len(sent) = 1 )

C9_Witness ==
    /\ pc = "done"
    /\ exit = "ok"
    /\ Len(sent) = 1
    /\ sent[1].text.kind = "reminder"
    /\ ~sent[1].returned

\* C10: when the query of get_contact_data raises, the result is empty
\* and the run sends the status message of an empty match set, once, and
\* ends normally with no exception.
C10_FetchFailureLooksEmpty ==
    rows.raises =>
        /\ contacts = <<>>
        /\ exc = "none"
        /\ pc = "done" =>
              /\ exit = "ok"
              /\ Len(sent) = 1
              /\ sent[1].text = status_message

C10_Witness ==
    /\ pc = "done"
    /\ rows.raises
    /\ exit = "ok"
    /\ sent = <<[text |-> status_message, returned |-> TRUE]>>

====
